---- MODULE Spec2Model ----
(***************************************************************************)
(* A model of aeronet/dataset/raster/band.py: the disk-backed Band, the    *)
(* in-memory BandSample, their windowing arithmetic, the tiling generator  *)
(* and the temporary-file lifecycle of Band.                               *)
(*                                                                         *)
(* Rasters are 2-D arrays (height rows, width columns), as the width and   *)
(* height properties of BandSample read them (shape[1], shape[0]).  Every  *)
(* pixel of a source raster carries a distinct positive identity, so that  *)
(* "which pixels does the result hold" is observable.  Transform entries   *)
(* and resolutions are integers.  band_shape_guard, which is not part of   *)
(* band.py, is taken to hand BandSample the 2-D array of the pixels.       *)
(***************************************************************************)
EXTENDS Integers, Sequences, FiniteSets, TLC

VARIABLES src, ret, gen, bands, files, nextTmp, last

vars == <<src, ret, gen, bands, files, nextTmp, last>>

(* ------------------------------ bounds -------------------------------- *)

\* largest raster width and height
MaxDim == 3
\* largest requested window / tile width and height
MaxTile == 3
\* how far before the array a window origin may lie
MaxOff == 2
\* largest number of Band objects created in one run
MaxBands == 3

(* ------------------------------ helpers ------------------------------- *)

Min(i, j) == IF i < j THEN i ELSE j

Max(i, j) == IF i > j THEN i ELSE j

Abs(i) == IF i < 0 THEN -i ELSE i

\* ceil(n / k) for n >= 0, k > 0
CeilDiv(n, k) == (n + k - 1) \div k

\* Python's None where the other values are strings (fp, dst_crs)
None == "None"

(* ------------------------------- values ------------------------------- *)

\* rasterio.Affine(a, b, c, d, e, f)
Affine(a, b, c, d, e, f) == [a |-> a, b |-> b, c |-> c, d |-> d, e |-> e, f |-> f]

\* CRS values; validity is the is_valid predicate of rasterio's CRS
ValidCRSs == {"EPSG:4326", "EPSG:32637"}

InvalidCRS == "EPSG:invalid"

is_valid(crs) == crs \in ValidCRSs

\* the exception values an operation can end with
NoError == "none"

CRSError == "CRSError"

FileNotFoundError == "FileNotFoundError"

\* a raster of the given shape whose pixel (r, c) is px[r][c]; rows and
\* columns are numbered from 1 in the model and from 0 in the code
Raster(h, w, px) == [height |-> h, width |-> w, data |-> px]

\* a source raster: the pixel in row r, column c has identity (r-1)*w + c
SourceRaster(h, w) ==
    Raster(h, w, [r \in 1..h |-> [c \in 1..w |-> (r - 1) * w + c]])

(* ----------------------------- BandSample ----------------------------- *)

\* BandSample.__init__: the instance, or the CRS error when crs is invalid
BandSampleInit(name, raster, crs, transform, nodata) ==
    IF ~is_valid(crs)
    THEN [kind |-> CRSError]
    ELSE [kind |-> "BandSample", name |-> name, raster |-> raster, crs |-> crs,
          transform |-> transform, nodata |-> nodata]

\* the width and height properties of Band and BandSample
Width(self) == self.raster.width

Height(self) == self.raster.height

\* the res property of BandSample
BandSample_res(self) == <<Abs(self.transform.a), Abs(self.transform.e)>>

\* Python's normalisation of one slice bound against a length n
SliceIndex(i, n) == IF i < 0 THEN Max(i + n, 0) ELSE Min(i, n)

\* the 0-based indices selected by seq[start:stop] on a length n
SliceLo(start, n) == SliceIndex(start, n)

SliceLen(start, stop, n) == Max(SliceIndex(stop, n) - SliceIndex(start, n), 0)

\* self._raster[y:y+height, x:x+width]
ArraySlice(raster, y, x, height, width) ==
    LET nr == SliceLen(y, y + height, raster.height)
        nc == SliceLen(x, x + width, raster.width)
        r0 == SliceLo(y, raster.height)
        c0 == SliceLo(x, raster.width)
    IN  Raster(nr, nc,
               [i \in 1..nr |-> [j \in 1..nc |-> raster.data[r0 + i][c0 + j]]])

\* BandSample.sample
BandSample_sample(self, y, x, height, width) ==
    LET coord_x == self.transform.c + x * self.transform.a
        coord_y == self.transform.f + y * self.transform.e
        dst_transform == Affine(self.transform.a, self.transform.b, coord_x,
                                self.transform.d, self.transform.e, coord_y)
        dst_raster == ArraySlice(self.raster, y, x, height, width)
    IN  BandSampleInit(self.name, dst_raster, self.crs, dst_transform, self.nodata)

\* BandSample.same
BandSample_same(self, other) ==
    LET r1 == TRUE
        r2 == r1 /\ (self.crs = other.crs)
        r3 == r2 /\ (self.transform = self.transform)
        r4 == r3 /\ (Height(self) = Height(self))
        r5 == r4 /\ (Width(self) = Width(self))
    IN  r5

\* the pixel value the warp engine writes: opaque to this model
WarpedPixel == 0

\* np.empty(shape) filled in place by rasterio.warp.reproject
Warped(h, w) == Raster(h, w, [i \in 1..h |-> [j \in 1..w |-> WarpedPixel]])

\* int(p / q) for p >= 0, q > 0
TruncDiv(p, q) == p \div q

\* BandSample.resample; dst_res is <<>> (None) or <<x, y>>, dst_shape is
\* <<>> (None) or <<1, rows, columns>>
BandSample_resample(self, dst_res, dst_shape) ==
    LET transform == IF dst_res = <<>> THEN self.transform
                     ELSE Affine(dst_res[2], self.transform.b, self.transform.c,
                                 self.transform.d, -dst_res[1], self.transform.f)
        res == BandSample_res(self)
        target_height ==
            IF dst_res # <<>> /\ dst_shape = <<>>
            THEN TruncDiv(Height(self) * res[1], dst_res[1])
            ELSE IF dst_shape # <<>> THEN dst_shape[2] ELSE Height(self)
        target_width ==
            IF dst_res # <<>> /\ dst_shape = <<>>
            THEN TruncDiv(Width(self) * res[2], dst_res[2])
            ELSE IF dst_shape # <<>> THEN dst_shape[3] ELSE Width(self)
    IN  BandSampleInit(self.name, Warped(target_height, target_width), self.crs,
                       transform, self.nodata)

(* -------------------------------- Band -------------------------------- *)

\* self._band.read(window=((y, y+height), (x, x+width)), boundless=True,
\* fill_value=fill): always height x width, fill outside the raster
BoundlessRead(raster, y, x, height, width, fill) ==
    Raster(height, width,
           [i \in 1..height |-> [j \in 1..width |->
               IF /\ y + i \in 1..raster.height
                  /\ x + j \in 1..raster.width
               THEN raster.data[y + i][x + j]
               ELSE fill]])

\* a slip in Band.sample: coord_y stepped by the pixel width a, not by e
Band_sampleBadE(self, y, x, height, width) ==
    LET coord_x == self.transform.c + x * self.transform.a
        coord_y == self.transform.f + y * self.transform.a
        dst_nodata == IF self.band_nodata # {} THEN CHOOSE v \in self.band_nodata : TRUE
                                                 ELSE 0
        dst_transform == Affine(self.transform.a, self.transform.b, coord_x,
                                self.transform.d, self.transform.e, coord_y)
    IN  BandSampleInit(self.name,
                       BoundlessRead(self.raster, y, x, height, width, dst_nodata),
                       self.crs, dst_transform, dst_nodata)

\* Band.sample; the nodata of a Band, band_nodata, is {} (None) or {value}
Band_sample(self, y, x, height, width) ==
    LET coord_x == self.transform.c + x * self.transform.a
        coord_y == self.transform.f + y * self.transform.e
        dst_crs == self.crs
        dst_name == self.name
        dst_nodata == IF self.band_nodata # {} THEN CHOOSE v \in self.band_nodata : TRUE
                                                 ELSE 0
        dst_transform == Affine(self.transform.a, self.transform.b, coord_x,
                                self.transform.d, self.transform.e, coord_y)
        dst_raster == BoundlessRead(self.raster, y, x, height, width, dst_nodata)
    IN  BandSampleInit(dst_name, dst_raster, dst_crs, dst_transform, dst_nodata)

\* the arguments (y, x, height, width) BandSample.from_file passes to Band.sample
from_file_args(band) ==
    [y |-> 0, x |-> 0, height |-> Width(band), width |-> Height(band)]

\* BandSample.from_file, band being the Band opened at fp
BandSample_from_file(band) ==
    LET a == from_file_args(band)
    IN  Band_sample(band, a.y, a.x, a.height, a.width)

\* a slip in Band.generate_samples: the inner loop steps by width
BandYStepsByWidth(self, g) ==
    IF g.x >= Width(self)
    THEN [g EXCEPT !.pc = "done"]
    ELSE LET out == Band_sample(self, g.y, g.x, g.height, g.width)
             tile == [y |-> g.y, x |-> g.x, height |-> g.height,
                      width |-> g.width, out |-> out]
             y2 == g.y + g.width
         IN  [g EXCEPT !.tiles = Append(@, tile),
                       !.y = IF y2 < Height(self) THEN y2 ELSE 0,
                       !.x = IF y2 < Height(self) THEN @ ELSE @ + g.width]

\* Band.generate_samples, one next() of the generator g of the Band self:
\* the two loops are at (g.x, g.y); a yield appends the sample to g.tiles,
\* the end of the outer loop ends the generator
Band_generate_samples(self, g) ==
    IF g.x >= Width(self)
    THEN [g EXCEPT !.pc = "done"]
    ELSE LET out == Band_sample(self, g.y, g.x, g.height, g.width)
             tile == [y |-> g.y, x |-> g.x, height |-> g.height,
                      width |-> g.width, out |-> out]
             y2 == g.y + g.height
         IN  [g EXCEPT !.tiles = Append(@, tile),
                       !.y = IF y2 < Height(self) THEN y2 ELSE 0,
                       !.x = IF y2 < Height(self) THEN @ ELSE @ + g.width]

\* BandSample.generate_samples, one next() of the generator g of self
BandSample_generate_samples(self, g) ==
    IF g.x >= Width(self)
    THEN [g EXCEPT !.pc = "done"]
    ELSE LET out == BandSample_sample(self, g.y, g.x, g.height, g.width)
             tile == [y |-> g.y, x |-> g.x, height |-> g.height,
                      width |-> g.width, out |-> out]
             y2 == g.y + g.height
         IN  [g EXCEPT !.tiles = Append(@, tile),
                       !.y = IF y2 < Height(self) THEN y2 ELSE 0,
                       !.x = IF y2 < Height(self) THEN @ ELSE @ + g.width]

(* ------------------------- the objects at hand ------------------------ *)

\* a Band as its properties show the opened file
BandObject(name, raster, crs, transform, nodata) ==
    [kind |-> "Band", name |-> name, raster |-> raster, crs |-> crs,
     transform |-> transform, band_nodata |-> nodata]

\* north-up and rotated / sheared transforms, square and non-square pixels
Transforms ==
    {Affine(a, b, 5, d, e, 7) : a \in {1, 2}, b \in {0, 1}, d \in {0, 1}, e \in {-1, -2}}

Shapes == (1..MaxDim) \X (1..MaxDim)

Sources ==
    {BandObject("in", SourceRaster(s[1], s[2]), "EPSG:4326", t, nd) :
        s \in Shapes, t \in Transforms, nd \in {{}, {-9}}}
    \cup
    {BandSampleInit("in", SourceRaster(s[1], s[2]), "EPSG:4326", t, nd) :
        s \in Shapes, t \in Transforms, nd \in {0, -9}}

\* window origins, also before and past the array
Offsets == (-MaxOff)..MaxDim

\* samples to compare self with: each of crs, transform, height, width
\* either equal to self's or not
Others(self) ==
    {BandSampleInit("other", SourceRaster(h, w), crs, t, self.nodata) :
        h \in {Height(self), Height(self) + 1},
        w \in {Width(self), Width(self) + 1},
        crs \in ValidCRSs,
        t \in {self.transform, [self.transform EXCEPT !.c = @ + 1]}}

\* dst_res arguments: None or (x, y)
DstRes == {<<>>} \cup ((1..3) \X (1..3))

\* dst_shape arguments: None or (1, rows, columns)
DstShapes == {<<>>, <<1, 1, 2>>, <<1, 3, 1>>}

IdleGen == [pc |-> "idle"]

IdleRet == [op |-> "none"]

IdleLast == [op |-> "none"]

(* ------------------- windowing, resample, same: Spec ------------------ *)

\* one call is made on the object at hand in each run: ret is the call made
\* and what it returned
Init ==
    /\ src \in Sources
    /\ ret = IdleRet
    /\ gen = IdleGen
    /\ bands = <<>>
    /\ files = {}
    /\ nextTmp = 0
    /\ last = IdleLast

\* band.sample(y, x, height, width)
BandSampleCall ==
    /\ ret = IdleRet
    /\ src.kind = "Band"
    /\ \E y \in Offsets, x \in Offsets, height \in 1..MaxTile, width \in 1..MaxTile :
          ret' = [op |-> "Band.sample", y |-> y, x |-> x, height |-> height,
                  width |-> width, out |-> Band_sample(src, y, x, height, width)]
    /\ UNCHANGED <<src, gen, bands, files, nextTmp, last>>

\* sample.sample(y, x, height, width)
SampleSampleCall ==
    /\ ret = IdleRet
    /\ src.kind = "BandSample"
    /\ \E y \in Offsets, x \in Offsets, height \in 1..MaxTile, width \in 1..MaxTile :
          ret' = [op |-> "BandSample.sample", y |-> y, x |-> x, height |-> height,
                  width |-> width, out |-> BandSample_sample(src, y, x, height, width)]
    /\ UNCHANGED <<src, gen, bands, files, nextTmp, last>>

\* BandSample.from_file(fp), fp being the file src shows
FromFileCall ==
    /\ ret = IdleRet
    /\ src.kind = "Band"
    /\ ret' = [op |-> "BandSample.from_file", args |-> from_file_args(src),
               out |-> BandSample_from_file(src)]
    /\ UNCHANGED <<src, gen, bands, files, nextTmp, last>>

\* sample.resample(dst_res, dst_shape)
ResampleCall ==
    /\ ret = IdleRet
    /\ src.kind = "BandSample"
    /\ \E dst_res \in DstRes, dst_shape \in DstShapes :
          ret' = [op |-> "BandSample.resample", dst_res |-> dst_res,
                  dst_shape |-> dst_shape,
                  out |-> BandSample_resample(src, dst_res, dst_shape)]
    /\ UNCHANGED <<src, gen, bands, files, nextTmp, last>>

\* sample.same(other)
SameCall ==
    /\ ret = IdleRet
    /\ src.kind = "BandSample"
    /\ \E other \in Others(src) :
          ret' = [op |-> "BandSample.same", other |-> other,
                  out |-> BandSample_same(src, other)]
    /\ UNCHANGED <<src, gen, bands, files, nextTmp, last>>

Next ==
    \/ BandSampleCall
    \/ SampleSampleCall
    \/ FromFileCall
    \/ ResampleCall
    \/ SameCall

Spec == Init /\ [][Next]_vars

(* ------------------------- tiling: SpecTiles -------------------------- *)

\* g = obj.generate_samples(width, height): a fresh generator, no code run yet
GenStart ==
    /\ gen.pc \in {"idle", "done"}
    /\ \E width \in 1..MaxTile, height \in 1..MaxTile :
          gen' = [pc |-> "run", width |-> width, height |-> height,
                  x |-> 0, y |-> 0, tiles |-> <<>>]
    /\ UNCHANGED <<src, ret, bands, files, nextTmp, last>>

\* next(g): run to the next yield, or to the end of the loops
GenNext ==
    /\ gen.pc = "run"
    /\ gen' = IF src.kind = "Band"
              THEN Band_generate_samples(src, gen)
              ELSE BandSample_generate_samples(src, gen)
    /\ UNCHANGED <<src, ret, bands, files, nextTmp, last>>

NextTiles == GenStart \/ GenNext

SpecTiles == Init /\ [][NextTiles]_vars

(* ------------------- Band lifecycle and CRS checks -------------------- *)

\* a file path: a directory and the name in it; the names of temporary
\* directories are the values of random_name()
Path(dir, n) == [dir |-> dir, n |-> n]

\* fp = None
NoneFp == Path("None", 0)

\* the paths a caller names: an input raster and an output file
UserPaths == {Path("user", 1), Path("user", 2)}

\* Band.__init__(fp): the handle on fp is open, the file is not temporary
Band___init__(fp) == [path |-> fp, tmp_file |-> FALSE, closed |-> FALSE]

\* a Band with what the run remembers about it: where it came from, whether
\* fp was None there, how far its destruction got, and whether one of its
\* destructions deleted a file
Tracked(band, origin, fp_none) ==
    [path |-> band.path, tmp_file |-> band.tmp_file, closed |-> band.closed,
     origin |-> origin, fp_none |-> fp_none, phase |-> "live", deleted |-> FALSE]

\* a slip in Band.__del__: the file is removed whatever the flag says
BandDelAlwaysRemoves(self, fs) ==
    LET fp == self.path
        closed == [self EXCEPT !.closed = TRUE]
    IN  IF fp \in fs
        THEN [band |-> [closed EXCEPT !.deleted = TRUE], files |-> fs \ {fp},
              err |-> NoError, effects |-> <<"close", "remove">>]
        ELSE [band |-> closed, files |-> fs,
              err |-> FileNotFoundError, effects |-> <<"close", "remove">>]

\* Band.__del__ on the Band self with the files fs on disk: os.remove raises
\* FileNotFoundError when the file is not there
Band___del__(self, fs) ==
    LET fp == self.path
        closed == [self EXCEPT !.closed = TRUE]
    IN  IF self.tmp_file
        THEN IF fp \in fs
             THEN [band |-> [closed EXCEPT !.deleted = TRUE], files |-> fs \ {fp},
                   err |-> NoError, effects |-> <<"close", "remove">>]
             ELSE [band |-> closed, files |-> fs,
                   err |-> FileNotFoundError, effects |-> <<"close", "remove">>]
        ELSE [band |-> closed, files |-> fs, err |-> NoError, effects |-> <<"close">>]

\* Band.resample(dst_res, fp) with the files fs on disk, rnd being the value
\* of random_name(): the new Band (a sequence of one), the files afterwards
\* and the calls made
Band_resample(self, fp, rnd, fs) ==
    LET tmp_file == IF fp # NoneFp THEN FALSE ELSE TRUE
        fp2 == IF fp = NoneFp THEN Path("/tmp/raster/resampled", rnd) ELSE fp
        band == [Band___init__(fp2) EXCEPT !.tmp_file = tmp_file]
    IN  [err |-> NoError, files |-> fs \cup {fp2},
         band |-> <<Tracked(band, "resample", fp = NoneFp)>>,
         effects |-> <<"makedirs", "open_w", "warp", "open_r">>]

\* the destination CRS Band.reproject and BandSample.reproject resolve
\* dst_crs to; utm is what get_utm_zone returns
ResolveCRS(dst_crs, utm) == IF dst_crs = "utm" THEN utm ELSE dst_crs

\* a slip in Band.reproject: the validity check comes after os.makedirs
BandReprojectLateCheck(self, dst_crs, utm, fp, rnd, fs) ==
    LET crs == ResolveCRS(dst_crs, utm)
        tmp_file == IF fp # NoneFp THEN FALSE ELSE TRUE
        fp2 == IF fp = NoneFp THEN Path("/tmp/raster/reprojected", rnd) ELSE fp
        band == [Band___init__(fp2) EXCEPT !.tmp_file = tmp_file]
    IN  IF ~is_valid(crs)
        THEN [err |-> CRSError, files |-> fs, band |-> <<>>, dst_crs |-> crs,
              effects |-> <<"makedirs">>]
        ELSE [err |-> NoError, files |-> fs \cup {fp2}, dst_crs |-> crs,
              band |-> <<Tracked(band, "reproject", fp = NoneFp)>>,
              effects |-> <<"makedirs", "calculate_default_transform", "open_w",
                            "warp", "open_r">>]

\* Band.reproject(dst_crs, fp)
Band_reproject(self, dst_crs, utm, fp, rnd, fs) ==
    LET crs == ResolveCRS(dst_crs, utm)
        tmp_file == IF fp # NoneFp THEN FALSE ELSE TRUE
        fp2 == IF fp = NoneFp THEN Path("/tmp/raster/reprojected", rnd) ELSE fp
        band == [Band___init__(fp2) EXCEPT !.tmp_file = tmp_file]
    IN  IF ~is_valid(crs)
        THEN [err |-> CRSError, files |-> fs, band |-> <<>>, dst_crs |-> crs,
              effects |-> <<>>]
        ELSE [err |-> NoError, files |-> fs \cup {fp2}, dst_crs |-> crs,
              band |-> <<Tracked(band, "reproject", fp = NoneFp)>>,
              effects |-> <<"makedirs", "calculate_default_transform", "open_w",
                            "warp", "open_r">>]

\* BandSample.reproject(dst_crs); dt is what calculate_default_transform
\* returns: [transform, width, height]
BandSample_reproject(self, dst_crs, utm, dt) ==
    LET crs == ResolveCRS(dst_crs, utm)
    IN  IF ~is_valid(crs)
        THEN [err |-> CRSError, dst_crs |-> crs, effects |-> <<>>,
              out |-> [kind |-> CRSError]]
        ELSE [err |-> NoError, dst_crs |-> crs,
              effects |-> <<"calculate_default_transform", "empty", "warp">>,
              out |-> BandSampleInit(self.name, Warped(dt.height, dt.width), crs,
                                     dt.transform, self.nodata)]

\* the values dst_crs takes: CRS objects and strings, valid or not, and 'utm'
CRSInputs == ValidCRSs \cup {InvalidCRS, "utm"}

\* what get_utm_zone may return
UTMZones == {"EPSG:32637", InvalidCRS}

\* what calculate_default_transform may return for self
DefaultTransforms(self) ==
    {[transform |-> self.transform, width |-> Width(self), height |-> Height(self)],
     [transform |-> [self.transform EXCEPT !.a = 2 * @, !.e = 2 * @],
      width |-> Width(self) + 1, height |-> Height(self) + 1]}

LifeSources ==
    {BandSampleInit("in", SourceRaster(2, 3), "EPSG:4326", Affine(1, 0, 5, 0, -1, 7), 0)}

\* the input raster is on disk; no Band is open
InitLife ==
    /\ src \in LifeSources
    /\ ret = IdleRet
    /\ gen = IdleGen
    /\ bands = <<>>
    /\ files = {Path("user", 1)}
    /\ nextTmp = 0
    /\ last = IdleLast

\* Band(fp)
OpenCall ==
    /\ Len(bands) < MaxBands
    /\ \E fp \in UserPaths \cup files :
          IF fp \in files
          THEN /\ bands' = Append(bands, Tracked(Band___init__(fp), "open", FALSE))
               /\ last' = [op |-> "Band", err |-> NoError]
          ELSE /\ bands' = bands
               /\ last' = [op |-> "Band", err |-> "RasterioIOError"]
    /\ UNCHANGED <<src, ret, gen, files, nextTmp>>

\* bands[i].resample(dst_res, fp)
BandResampleCall ==
    /\ Len(bands) < MaxBands
    /\ \E i \in DOMAIN bands, fp \in UserPaths \cup {NoneFp} :
          /\ ~bands[i].closed
          /\ LET r == Band_resample(bands[i], fp, nextTmp, files)
             IN  /\ bands' = bands \o r.band
                 /\ files' = r.files
                 /\ nextTmp' = IF fp = NoneFp THEN nextTmp + 1 ELSE nextTmp
                 /\ last' = [op |-> "Band.resample", err |-> r.err,
                             effects |-> r.effects]
    /\ UNCHANGED <<src, ret, gen>>

\* bands[i].reproject(dst_crs, fp)
BandReprojectCall ==
    /\ Len(bands) < MaxBands
    /\ \E i \in DOMAIN bands, fp \in UserPaths \cup {NoneFp},
          dst_crs \in CRSInputs, utm \in UTMZones :
          /\ ~bands[i].closed
          /\ LET r == Band_reproject(bands[i], dst_crs, utm, fp, nextTmp, files)
             IN  /\ bands' = bands \o r.band
                 /\ files' = r.files
                 /\ nextTmp' = IF fp = NoneFp /\ r.err = NoError
                               THEN nextTmp + 1 ELSE nextTmp
                 /\ last' = [op |-> "Band.reproject", err |-> r.err,
                             effects |-> r.effects, dst_crs |-> r.dst_crs,
                             made |-> Len(r.band)]
    /\ UNCHANGED <<src, ret, gen>>

\* the destruction of bands[i]: __del__ runs, then the Band is in phase
Destroy(i, phase) ==
    LET r == Band___del__(bands[i], files)
    IN  /\ bands' = [bands EXCEPT ![i] = [r.band EXCEPT !.phase = phase]]
        /\ files' = r.files
        /\ last' = [op |-> "Band.__del__", err |-> r.err, effects |-> r.effects,
                    was_closed |-> bands[i].closed]
        /\ UNCHANGED <<src, ret, gen, nextTmp>>

\* explicit disposal: bands[i].__del__() is called, the object stays referenced
DisposeCall == \E i \in DOMAIN bands : bands[i].phase = "live" /\ Destroy(i, "disposed")

\* garbage collection of bands[i], disposed before or not
CollectCall ==
    \E i \in DOMAIN bands : bands[i].phase \in {"live", "disposed"} /\ Destroy(i, "collected")

\* src.reproject(dst_crs)
SampleReprojectCall ==
    /\ \E dst_crs \in CRSInputs, utm \in UTMZones, dt \in DefaultTransforms(src) :
          LET r == BandSample_reproject(src, dst_crs, utm, dt)
          IN  last' = [op |-> "BandSample.reproject", err |-> r.err,
                       effects |-> r.effects, dst_crs |-> r.dst_crs, out |-> r.out,
                       made |-> IF r.out.kind = "BandSample" THEN 1 ELSE 0]
    /\ UNCHANGED <<src, ret, gen, bands, files, nextTmp>>

\* BandSample(name, raster, crs, transform, nodata)
SampleInitCall ==
    /\ \E crs \in ValidCRSs \cup {InvalidCRS} :
          LET out == BandSampleInit("new", src.raster, crs, src.transform, 0)
          IN  last' = [op |-> "BandSample", dst_crs |-> crs, out |-> out,
                       effects |-> <<>>,
                       err |-> IF out.kind = CRSError THEN CRSError ELSE NoError,
                       made |-> IF out.kind = "BandSample" THEN 1 ELSE 0]
    /\ UNCHANGED <<src, ret, gen, bands, files, nextTmp>>

\* the life of Bands: creation by open, resample and reproject, destruction
NextLife ==
    \/ OpenCall
    \/ BandResampleCall
    \/ BandReprojectCall
    \/ DisposeCall
    \/ CollectCall

SpecLife == InitLife /\ [][NextLife]_vars

\* the operations that validate a CRS, on Bands and on the BandSample at hand
NextCRS ==
    \/ OpenCall
    \/ BandReprojectCall
    \/ SampleReprojectCall
    \/ SampleInitCall

SpecCRS == InitLife /\ [][NextCRS]_vars

(* ------------------------------ the claims ---------------------------- *)

\* the number of tiles of the grid over the object at hand
GridTiles == CeilDiv(Width(src), gen.width) * CeilDiv(Height(src), gen.height)

\* the tiles yielded so far whose window holds the pixel in column px, row py
\* (0-based, as in the code)
TilesHolding(px, py) ==
    {i \in 1..Len(gen.tiles) :
        /\ gen.tiles[i].x <= px /\ px < gen.tiles[i].x + gen.tiles[i].width
        /\ gen.tiles[i].y <= py /\ py < gen.tiles[i].y + gen.tiles[i].height}

\* C1: generate_samples(w, h), on a Band and on a BandSample of size W x H,
\* yields exactly ceil(W/w)*ceil(H/h) samples and then ends: it never yields
\* more, the call after the last tile ends the generator, and it ends only
\* after that many; no pixel of the raster lies in two yielded windows, and
\* when the generator has ended every pixel lies in exactly one.
C1_TilingCoverage ==
    gen.pc \in {"run", "done"} =>
        /\ Len(gen.tiles) <= GridTiles
        /\ (gen.pc = "run" /\ Len(gen.tiles) = GridTiles) => gen.x >= Width(src)
        /\ gen.pc = "done" => Len(gen.tiles) = GridTiles
        /\ \A px \in 0..(Width(src) - 1), py \in 0..(Height(src) - 1) :
              /\ Cardinality(TilesHolding(px, py)) <= 1
              /\ gen.pc = "done" => Cardinality(TilesHolding(px, py)) = 1

\* a BandSample tiled to the end with tiles that do not divide it: edge tiles
C1_Witness ==
    /\ gen.pc = "done"
    /\ src.kind = "BandSample"
    /\ Width(src) = 3 /\ Height(src) = 3
    /\ gen.width = 2 /\ gen.height = 2
    /\ Len(gen.tiles) = 4

SampleOps == {"Band.sample", "BandSample.sample"}

\* C2: the sample returned by Band.sample(y, x, height, width) and by
\* BandSample.sample(y, x, height, width) has the transform
\* (a, b, c + x*a, d, e, f + y*e) of the source's (a, b, c, d, e, f); with
\* x = 0 and y = 0 it is the source's transform.
C2_WindowedTransform ==
    ret.op \in SampleOps =>
        LET t == src.transform
        IN  /\ ret.out.transform =
                 Affine(t.a, t.b, t.c + ret.x * t.a, t.d, t.e, t.f + ret.y * t.e)
            /\ (ret.x = 0 /\ ret.y = 0) => ret.out.transform = t

\* a window away from the origin, on a transform with a # |e|
C2_Witness ==
    /\ ret.op = "BandSample.sample"
    /\ ret.x = 2 /\ ret.y = 1
    /\ src.transform.a = 1 /\ src.transform.e = -2
    /\ ret.out.transform.c = 7 /\ ret.out.transform.f = 5

\* C3: BandSample.from_file reads the full extent of a W x H raster as one
\* sample: the window passed to Band.sample has origin (0, 0), height H and
\* width W, and the result has height H, width W and the source's transform.
C3_FromFileFullExtent ==
    ret.op = "BandSample.from_file" =>
        /\ ret.args = [y |-> 0, x |-> 0, height |-> Height(src), width |-> Width(src)]
        /\ Height(ret.out) = Height(src)
        /\ Width(ret.out) = Width(src)
        /\ ret.out.transform = src.transform

\* the source pixels of the intersection of the window [y, y+height) x
\* [x, x+width) with the array [0, H) x [0, W)
Intersection(raster, y, x, height, width) ==
    LET r0 == Max(y, 0)
        c0 == Max(x, 0)
        nr == Max(Min(y + height, raster.height) - r0, 0)
        nc == Max(Min(x + width, raster.width) - c0, 0)
    IN  Raster(nr, nc,
               [i \in 1..nr |-> [j \in 1..nc |-> raster.data[r0 + i][c0 + j]]])

\* C4: BandSample.sample(y, x, height, width) holds exactly the source pixels
\* of the intersection of the window with the array, for every integer
\* window origin, also one outside the array.
C4_SampleTruncates ==
    ret.op = "BandSample.sample" =>
        ret.out.raster = Intersection(src.raster, ret.y, ret.x, ret.height, ret.width)

\* C6: the shape of BandSample.resample's result: rows dst_shape[1] and
\* columns dst_shape[2] when dst_shape is given; trunc(height * res.y /
\* dst_res.y) rows and trunc(width * res.x / dst_res.x) columns when only
\* dst_res = (x, y) is given; the input's shape when neither is given.
C6_ResampleShape ==
    ret.op = "BandSample.resample" =>
        LET res_x == Abs(src.transform.a)
            res_y == Abs(src.transform.e)
        IN  /\ ret.dst_shape # <<>> =>
                 /\ Height(ret.out) = ret.dst_shape[2]
                 /\ Width(ret.out) = ret.dst_shape[3]
            /\ (ret.dst_shape = <<>> /\ ret.dst_res # <<>>) =>
                 /\ Height(ret.out) = (Height(src) * res_y) \div ret.dst_res[2]
                 /\ Width(ret.out) = (Width(src) * res_x) \div ret.dst_res[1]
            /\ (ret.dst_shape = <<>> /\ ret.dst_res = <<>>) =>
                 /\ Height(ret.out) = Height(src)
                 /\ Width(ret.out) = Width(src)

\* C7: BandSample.same(other) is True if and only if self and other have
\* equal crs, equal transform, equal height and equal width.
C7_SameComparesOther ==
    ret.op = "BandSample.same" =>
        (ret.out <=> /\ src.crs = ret.other.crs
                     /\ src.transform = ret.other.transform
                     /\ Height(src) = Height(ret.other)
                     /\ Width(src) = Width(ret.other))

\* C10: the transform of the sample returned by Band.sample(y, x, ...) or
\* BandSample.sample(y, x, ...) maps pixel (0, 0) to the world point the
\* source transform maps pixel (col = x, row = y) to,
\* (c + x*a + y*b, f + x*d + y*e), also for rotated or sheared transforms.
C10_WindowAgreesWithAffine ==
    ret.op \in SampleOps =>
        LET t == src.transform
        IN  /\ ret.out.transform.c = t.c + ret.x * t.a + ret.y * t.b
            /\ ret.out.transform.f = t.f + ret.x * t.d + ret.y * t.e

\* the Band was returned by resample or reproject called with fp = None
FromFactoryWithoutFp(b) == b.origin \in {"resample", "reproject"} /\ b.fp_none

\* in a sequence of calls, every os.remove comes after a close
CloseBeforeRemove(effects) ==
    \A k \in DOMAIN effects :
        effects[k] = "remove" => \E j \in 1..(k - 1) : effects[j] = "close"

\* C5: after any sequence of open, resample, reproject and destroy, a
\* destroyed Band has had its backing file deleted by its destruction if and
\* only if it was returned by resample or reproject called with fp = None;
\* the file of a Band at a caller's path is still on disk; and in every
\* destruction the handle is closed before the file is deleted.
C5_DeleteIffTemporary ==
    /\ \A i \in DOMAIN bands :
          /\ bands[i].phase # "live" =>
                (bands[i].deleted <=> FromFactoryWithoutFp(bands[i]))
          /\ bands[i].phase = "live" => ~bands[i].deleted
          /\ bands[i].path \in UserPaths => bands[i].path \in files
    /\ last.op = "Band.__del__" => CloseBeforeRemove(last.effects)

\* a temporary Band and a Band written to a caller's path, both destroyed:
\* only the temporary one's file is gone
C5_Witness ==
    \E i, j \in DOMAIN bands :
        /\ bands[i].origin = "resample" /\ bands[i].fp_none
        /\ bands[i].phase = "collected" /\ bands[i].deleted
        /\ bands[i].path \notin files
        /\ bands[j].origin = "resample" /\ ~bands[j].fp_none
        /\ bands[j].phase = "collected" /\ ~bands[j].deleted
        /\ bands[j].path \in files

\* C8: when the resolved destination CRS is invalid, Band.reproject and
\* BandSample.reproject raise a CRS error having made no call (no directory
\* created, no file opened or written, no buffer allocated, no warp) and
\* produce no new Band or BandSample, and the Bands and the files on disk
\* are as before the call; BandSample construction with an invalid CRS
\* raises and yields no instance.
C8_CRSFailsFast ==
    [][(/\ last'.op \in {"Band.reproject", "BandSample.reproject", "BandSample"}
        /\ ~is_valid(last'.dst_crs))
       => /\ last'.err = CRSError
          /\ last'.effects = <<>>
          /\ last'.made = 0
          /\ bands' = bands
          /\ files' = files
          /\ nextTmp' = nextTmp]_vars

\* Band.reproject to 'utm' has raised on an invalid zone, with Bands open
C8_Witness ==
    /\ last.op = "Band.reproject"
    /\ last.err = CRSError
    /\ last.dst_crs = InvalidCRS
    /\ Len(bands) >= 2

\* C9: destruction run again on a Band whose handle is already closed raises
\* no error and deletes (or tries to delete) no file, for temporary Bands as
\* for the others.
C9_DestructionIdempotent ==
    (last.op = "Band.__del__" /\ last.was_closed) =>
        /\ last.err = NoError
        /\ \A k \in DOMAIN last.effects : last.effects[k] # "remove"

====
